---- MODULE Spec2Model ----
(***************************************************************************)
(* A model of python-snake/main.py: the game state (board, player, pellet, *)
(* score, game_over), the step engine Game.step, the rejection loop of     *)
(* Pellet.generate and the session loop run_game.                          *)
(*                                                                         *)
(* Positions are pairs <<x, y>>.  The loop of Pellet.generate is modelled  *)
(* draw by draw: pc = "generate" is the head of its while loop, with the   *)
(* candidate in `position`; everything else of a handler is one action.    *)
(***************************************************************************)
EXTENDS Integers, Sequences, FiniteSets

VARIABLES
    settings,   \* GameSettings: [board_height, board_width]
    board,      \* GameState.board: [start, end]
    body,       \* GameState.player.body, head first
    direction,  \* GameState.player.direction
    pellet,     \* GameState.pellet.position
    score,      \* GameState.score
    game_over,  \* GameState.game_over
    key,        \* the key of the current frame (run_game) / of the step call
    position,   \* the candidate of Pellet.generate
    caller,     \* who called Pellet.generate: "init" or "step"
    pc,         \* "generate", "frame", "quit" or "crashed"
    vacated     \* history: the cell the last move popped off the tail, or NoCell

vars == <<settings, board, body, direction, pellet, score, game_over,
          key, position, caller, pc, vacated>>

gamestate == <<board, body, direction, pellet, score, game_over>>

----------------------------------------------------------------------------
(* Bounds of the model *)

MaxBoardWidth == 3
MaxBoardHeight == 2
\* how far outside the board a head may be for the engine to be called again
MaxOutside == 1

BoardWidths == 0..MaxBoardWidth
BoardHeights == 0..MaxBoardHeight
\* stdscr.getmaxyx(): one even and one odd size on each axis
ScreenWidths == {6, 7}
ScreenHeights == {4, 5}

----------------------------------------------------------------------------
(* Key codes *)

KEY_DOWN == 258
KEY_UP == 259
KEY_LEFT == 260
KEY_RIGHT == 261
KEY_q == 113
KEY_r == 114
\* getch() returns -1 when the frame times out with no key pressed
NoKey == -1
\* some key the game gives no meaning to (space)
OtherKey == 32

Keys == {KEY_UP, KEY_DOWN, KEY_LEFT, KEY_RIGHT, KEY_q, KEY_r, NoKey, OtherKey}

----------------------------------------------------------------------------
(* Geometry *)

Position(x, y) == <<x, y>>

Add(a, b) == Position(a[1] + b[1], a[2] + b[2])

Le(a, b) == a[1] <= b[1] /\ a[2] <= b[2]

Rectangle(s, e) == [start |-> s, end |-> e]

width(r) == r.end[1] - r.start[1] + 1

height(r) == r.end[2] - r.start[2] + 1

Zero == Position(0, 0)

NoCell == <<>>

Elems(s) == {s[i] : i \in 1..Len(s)}

\* Cells when the draw leaves out the last column (randrange for randint)
Cells_HalfOpen(b) ==
    {Position(x, y) : x \in b.start[1]..(b.end[1] - 1), y \in b.start[2]..b.end[2]}

\* the pairs random.randint(start.x, end.x), random.randint(start.y, end.y) can give
Cells(b) == {Position(x, y) : x \in b.start[1]..b.end[1], y \in b.start[2]..b.end[2]}

\* random.randint(a, b) raises ValueError when a > b
EmptyRange(b) == b.start[1] > b.end[1] \/ b.start[2] > b.end[2]

----------------------------------------------------------------------------
(* Game.__init__ *)

GameSettings(h, w) == [board_height |-> h, board_width |-> w]

\* Board with the "- 1" of the end corner forgotten
Board_NoMinusOne(screen_height, screen_width, st) ==
    Rectangle(
        Position((screen_width - st.board_width) \div 2,
                 (screen_height - st.board_height) \div 2),
        Position((screen_width + st.board_width) \div 2,
                 (screen_height + st.board_height) \div 2))

\* the board rectangle, centred on the screen with floor division
Board(screen_height, screen_width, st) ==
    Rectangle(
        Position((screen_width - st.board_width) \div 2,
                 (screen_height - st.board_height) \div 2),
        Position((screen_width + st.board_width) \div 2 - 1,
                 (screen_height + st.board_height) \div 2 - 1))

\* InitialBody with the halving of the settings forgotten
InitialBody_Corner(b, st) ==
    <<Add(b.start, Position(st.board_width, st.board_height))>>

\* Player([board.start + Position(board_width // 2, board_height // 2)])
InitialBody(b, st) ==
    <<Add(b.start, Position(st.board_width \div 2, st.board_height \div 2))>>

InitialDirection == Zero

InitialPellet == Zero

InitialScore == 0

InitialGameOver == FALSE

----------------------------------------------------------------------------
(* Player.move *)

\* Move that pops the tail whether or not the head is on the pellet
Move_AlwaysPop(b, d, pellet_position) == <<Add(b[1], d)>> \o SubSeq(b, 1, Len(b) - 1)

\* head = body[0] + direction; insert at the front; pop the tail unless the
\* head is on the pellet
Move(b, d, pellet_position) ==
    LET head == Add(b[1], d)
        grown == <<head>> \o b
    IN  IF head # pellet_position
        THEN SubSeq(grown, 1, Len(grown) - 1)
        ELSE grown

----------------------------------------------------------------------------
(* Pellet.generate *)

\* Occupied that leaves the head out of the test
Occupied_TailOnly(p, b) == p \in {b[i] : i \in 2..Len(b)}

\* the loop condition: position in player.body
Occupied(p, b) == p \in Elems(b)

----------------------------------------------------------------------------
(* Game.is_game_over *)

\* is_within_bounds with the far edge of the board excluded
is_within_bounds_Strict(bd, b) ==
    /\ Le(bd.start, b[1])
    /\ b[1][1] < bd.end[1]
    /\ b[1][2] < bd.end[2]

\* is_within_bounds that tests the start corner only
is_within_bounds_StartOnly(bd, b) == Le(bd.start, b[1])

is_within_bounds(bd, b) == Le(bd.start, b[1]) /\ Le(b[1], bd.end)

\* is_inside_self that never sees a collision
is_inside_self_Never(b) == FALSE

is_inside_self(b) == b[1] \in Elems(Tail(b))

is_game_over(bd, b) == ~is_within_bounds(bd, b) \/ is_inside_self(b)

----------------------------------------------------------------------------
(* Game.step *)

Up == Position(0, -1)
Down == Position(0, 1)
Left == Position(-1, 0)
Right == Position(1, 0)

\* NewDirection without the tests on the current direction
NewDirection_NoCheck(k, d) ==
    IF k = KEY_UP THEN Up
    ELSE IF k = KEY_DOWN THEN Down
    ELSE IF k = KEY_LEFT THEN Left
    ELSE IF k = KEY_RIGHT THEN Right
    ELSE d

\* the if/elif chain on the key and the current direction
NewDirection(k, d) ==
    IF k = KEY_UP /\ d # Down THEN Up
    ELSE IF k = KEY_DOWN /\ d # Up THEN Down
    ELSE IF k = KEY_LEFT /\ d # Right THEN Left
    ELSE IF k = KEY_RIGHT /\ d # Left THEN Right
    ELSE d

\* Eaten that compares the neck, not the head
Eaten_Neck(b, pellet_position) == Len(b) >= 2 /\ b[2] = pellet_position

\* if self.state.player.body[0] == self.state.pellet.position
Eaten(b, pellet_position) == b[1] = pellet_position

\* the first draw of Pellet.generate, up to the head of its while loop
GenerateCall(who) ==
    /\ caller' = who
    /\ IF EmptyRange(board')
       THEN pc' = "crashed" /\ position' = position
       ELSE pc' = "generate" /\ position' \in Cells(board')

\* GameOverCheck that leaves the direction as it is
GameOverCheck_KeepDirection(b, d) ==
    /\ game_over' = (game_over \/ is_game_over(board, b))
    /\ direction' = d

\* the end of Game.step: if self.is_game_over(): ...
GameOverCheck(b, d) ==
    IF is_game_over(board, b)
    THEN game_over' = TRUE /\ direction' = Zero
    ELSE game_over' = game_over /\ direction' = d

\* Step that moves before it looks at the key
Step_MoveFirst(k) ==
    LET d == NewDirection(k, direction)
        b == Move(body, direction, pellet)
    IN  /\ key' = k
        /\ body' = b
        /\ board' = board
        /\ settings' = settings
        /\ IF Eaten(b, pellet)
           THEN /\ score' = score + 1
                /\ vacated' = NoCell
                /\ direction' = d
                /\ UNCHANGED <<pellet, game_over>>
                /\ GenerateCall("step")
           ELSE /\ vacated' = body[Len(body)]
                /\ GameOverCheck(b, d)
                /\ UNCHANGED <<score, pellet, position, caller, pc>>

\* Game.step(key); when the pellet is eaten the action stops at the head of
\* the loop of Pellet.generate, and GenerateLoop finishes the step
Step(k) ==
    LET d == NewDirection(k, direction)
        b == Move(body, d, pellet)
    IN  /\ key' = k
        /\ body' = b
        /\ board' = board
        /\ settings' = settings
        /\ IF Eaten(b, pellet)
           THEN /\ score' = score + 1
                /\ vacated' = NoCell
                /\ direction' = d
                /\ UNCHANGED <<pellet, game_over>>
                /\ GenerateCall("step")
           ELSE /\ vacated' = body[Len(body)]
                /\ GameOverCheck(b, d)
                /\ UNCHANGED <<score, pellet, position, caller, pc>>

\* one turn of `while position in player.body`, or the exit of the loop and
\* what follows it in the caller
GenerateLoop ==
    /\ pc = "generate"
    /\ IF Occupied(position, body)
       THEN /\ position' \in Cells(board)
            /\ UNCHANGED <<settings, board, body, direction, pellet, score,
                           game_over, key, caller, pc, vacated>>
       ELSE /\ pellet' = position
            /\ pc' = "frame"
            /\ IF caller = "step"
               THEN GameOverCheck(body, direction)
               ELSE UNCHANGED <<direction, game_over>>
            /\ UNCHANGED <<settings, board, body, score, key, position,
                           caller, vacated>>

----------------------------------------------------------------------------
(* run_game *)

\* Running when run_game never looks at game_over
Running_Always == TRUE

\* if game.state.game_over: ... continue
Running == ~game_over

\* game = Game(stdscr, settings), up to the head of the loop of generate
Construct(screen_height, screen_width) ==
    /\ board' = Board(screen_height, screen_width, settings)
    /\ body' = InitialBody(board', settings)
    /\ direction' = InitialDirection
    /\ pellet' = InitialPellet
    /\ score' = InitialScore
    /\ game_over' = InitialGameOver
    /\ vacated' = NoCell
    /\ settings' = settings
    /\ GenerateCall("init")

Init ==
    \E h \in BoardHeights, w \in BoardWidths,
       screen_height \in ScreenHeights, screen_width \in ScreenWidths :
        /\ settings = GameSettings(h, w)
        /\ board = Board(screen_height, screen_width, settings)
        /\ body = InitialBody(board, settings)
        /\ direction = InitialDirection
        /\ pellet = InitialPellet
        /\ score = InitialScore
        /\ game_over = InitialGameOver
        /\ vacated = NoCell
        /\ key = NoKey
        /\ caller = "init"
        /\ IF EmptyRange(board)
           THEN pc = "crashed" /\ position = InitialPellet
           ELSE pc = "generate" /\ position \in Cells(board)

\* if key == ord("q"): break
Quit ==
    /\ pc = "frame"
    /\ key' = KEY_q
    /\ pc' = "quit"
    /\ UNCHANGED <<settings, board, body, direction, pellet, score, game_over,
                   position, caller, vacated>>

\* Restart when the restart key is looked at before game_over
Restart_AnyTime ==
    /\ pc = "frame"
    /\ key' = KEY_r
    /\ \E screen_height \in ScreenHeights, screen_width \in ScreenWidths :
           Construct(screen_height, screen_width)

\* game over and key == ord("r"): a new Game
Restart ==
    /\ pc = "frame"
    /\ ~Running
    /\ key' = KEY_r
    /\ \E screen_height \in ScreenHeights, screen_width \in ScreenWidths :
           Construct(screen_height, screen_width)

\* game over and any other key: continue
Idle ==
    /\ pc = "frame"
    /\ ~Running
    /\ key' \in Keys \ {KEY_q, KEY_r}
    /\ UNCHANGED <<settings, board, body, direction, pellet, score, game_over,
                   position, caller, pc, vacated>>

\* game.step(key); game.draw(stdscr)
StepFrame ==
    /\ pc = "frame"
    /\ Running
    /\ \E k \in Keys \ {KEY_q} : Step(k)

Next == Quit \/ Restart \/ Idle \/ StepFrame \/ GenerateLoop

Spec == Init /\ [][Next]_vars

\* a turn of the loop of Pellet.generate whose draw is a free cell
DrawFree ==
    /\ GenerateLoop
    /\ pc' = "generate"
    /\ ~Occupied(position', body)

\* run_game with fair draws: the loop of Pellet.generate goes on, and since
\* random.randint gives every cell of the board again and again, a free cell
\* is drawn when there is one
FairSpec == Spec /\ WF_vars(GenerateLoop) /\ WF_vars(DrawFree)

----------------------------------------------------------------------------
(* The step engine called directly, whatever game_over says *)

\* the head is at most MaxOutside cells outside the board
NearBoard ==
    /\ board.start[1] - MaxOutside <= body[1][1]
    /\ body[1][1] <= board.end[1] + MaxOutside
    /\ board.start[2] - MaxOutside <= body[1][2]
    /\ body[1][2] <= board.end[2] + MaxOutside

\* a call of Game.step on any state a step left behind: Running, or GameOver
\* with the direction the game-over check zeroed
EngineStep ==
    /\ pc = "frame"
    /\ game_over => (direction = Zero /\ NearBoard)
    /\ \E k \in Keys : Step(k)

EngineNext == EngineStep \/ GenerateLoop

EngineSpec == Init /\ [][EngineNext]_vars

----------------------------------------------------------------------------
(* Vocabulary of the properties *)

\* a state between two frames of run_game (or the one the session ended in)
BetweenFrames == pc \in {"frame", "quit"}

InBoard(p) ==
    /\ board.start[1] <= p[1] /\ p[1] <= board.end[1]
    /\ board.start[2] <= p[2] /\ p[2] <= board.end[2]

NoDuplicates(s) == \A i, j \in 1..Len(s) : i # j => s[i] # s[j]

HeadOutside == ~InBoard(body[1])

HeadOnSegment == \E i \in 2..Len(body) : body[i] = body[1]

DirectionKeys == {KEY_UP, KEY_DOWN, KEY_LEFT, KEY_RIGHT}

KeyVector(k) ==
    CASE k = KEY_UP -> <<0, -1>>
      [] k = KEY_DOWN -> <<0, 1>>
      [] k = KEY_LEFT -> <<-1, 0>>
      [] k = KEY_RIGHT -> <<1, 0>>

Opposite(c, d) == c # <<0, 0>> /\ d = <<0 - c[1], 0 - c[2]>>

\* a step of the engine begins in a Running frame of run_game
StepBegins == pc = "frame" /\ ~game_over /\ pc' # "quit"

\* a step of the engine ends: at once, or when the pellet it ate is replaced
StepEnds ==
    \/ pc = "frame" /\ ~game_over /\ pc' = "frame"
    \/ pc = "generate" /\ caller = "step" /\ pc' = "frame"

\* the frame restarts the game
Restarted == pc = "frame" /\ game_over /\ key' = KEY_r

----------------------------------------------------------------------------
(* C1..C10 *)

\* C1: after every step taken from a Running state, game_over is true iff the
\* head is outside the board or equals a non-head body segment; a head that
\* moves onto the cell the tail vacated in that step is no collision.
C1_GameOverIffCollision ==
    /\ [][StepEnds => (game_over' <=> (HeadOutside' \/ HeadOnSegment'))]_vars
    /\ [][(StepBegins /\ Len(body) >= 2 /\ Len(body') = Len(body)
            /\ body'[1] = body[Len(body)]) => ~game_over']_vars

\* the head has just moved onto the cell the tail vacated, and the game goes on
C1_Witness ==
    /\ pc = "frame"
    /\ ~game_over
    /\ Len(body) >= 4
    /\ body[1] = vacated

\* C2: in run_game, once game_over is true every frame whose key is neither
\* quit nor restart leaves the GameState unchanged, and game_over returns to
\* false only through a restart, which constructs a fresh GameState.
C2_GameOverTerminal ==
    /\ [][(pc = "frame" /\ game_over /\ key' \notin {KEY_q, KEY_r})
            => (UNCHANGED gamestate /\ pc' = "frame")]_vars
    /\ [][(game_over /\ ~game_over')
            => (/\ pc = "frame"
                /\ key' = KEY_r
                /\ score' = 0
                /\ Len(body') = 1
                /\ direction' = <<0, 0>>)]_vars

\* A frame with the left key passed in GameOver: the head left the board through
\* its top edge, which no step with the left key does (that step moves the head
\* left, or right when the reversal is rejected, from a cell inside the board).
C2_Witness ==
    /\ pc = "frame"
    /\ game_over
    /\ key = KEY_LEFT
    /\ body[1][2] < board.start[2]
    /\ board.start[1] <= body[1][1]
    /\ body[1][1] <= board.end[1]

\* C3: for every current direction c and every directional key with vector d,
\* the step moves with d, unless d is the exact opposite of a non-zero c, and
\* then it moves with c; the direction is that vector until the game-over
\* check zeroes it.
C3_DirectionRule ==
    [][(StepBegins /\ key' \in DirectionKeys)
        => (LET c == direction
                d == KeyVector(key')
                e == IF Opposite(c, d) THEN c ELSE d
            IN  /\ body'[1] = <<body[1][1] + e[1], body[1][2] + e[2]>>
                /\ (pc' = "generate" \/ ~game_over') => direction' = e
                /\ direction' \in {e, <<0, 0>>})]_vars

\* a rejected reversal: going left with two segments, the right key was sent,
\* and the snake still goes left
C3_Witness ==
    /\ pc = "frame"
    /\ ~game_over
    /\ key = KEY_RIGHT
    /\ direction = <<-1, 0>>
    /\ Len(body) = 2
    /\ body[2] = <<body[1][1] + 1, body[1][2]>>

\* C4: a move keeps the length of the body when the new head is not on the
\* pellet and adds exactly one when it is; the other segments keep their
\* order, one index further back.
C4_MoveLength ==
    [][StepBegins
        => (/\ Len(body') = Len(body) + (IF body'[1] = pellet THEN 1 ELSE 0)
            /\ \A i \in 2..Len(body') : body'[i] = body[i - 1])]_vars

\* the snake has just grown onto a pellet for the third time
C4_Witness ==
    /\ pc = "generate"
    /\ caller = "step"
    /\ body[1] = pellet
    /\ Len(body) = 4

\* C5: within a session the score never decreases: a step whose new head
\* lands on the pellet adds exactly 1, and nothing else changes the score.
C5_Score ==
    [][~Restarted
        => (IF StepBegins /\ body'[1] = pellet
            THEN score' = score + 1
            ELSE score' = score)]_vars

\* two pellets were eaten in this session
C5_Witness ==
    /\ pc = "frame"
    /\ score = 2
    /\ ~game_over

\* C6: right after every pellet generation the pellet is inside the board and
\* differs from every segment of the body, new head included.
C6_PelletFree ==
    [][(pc = "generate" /\ pc' = "frame")
        => (InBoard(pellet') /\ \A i \in 1..Len(body') : body'[i] # pellet')]_vars

\* the pellet has been replaced after the snake ate one
C6_Witness ==
    /\ pc = "frame"
    /\ caller = "step"
    /\ vacated = NoCell
    /\ Len(body) >= 2
    /\ pellet # body[1]

\* C7: the restart key reconstructs the game only in GameOver (score 0, one
\* segment, direction zero, game_over false, then a fresh pellet on a free
\* cell); while Running it is a key like any other, and resets nothing.
C7_Restart ==
    /\ [][Restarted
            => (/\ score' = 0
                /\ Len(body') = 1
                /\ direction' = <<0, 0>>
                /\ ~game_over'
                /\ pc' = "generate"
                /\ caller' = "init")]_vars
    /\ [][(pc = "generate" /\ caller = "init" /\ pc' = "frame")
            => (/\ InBoard(pellet')
                /\ pellet' # body'[1]
                /\ score' = 0
                /\ Len(body') = 1
                /\ ~game_over')]_vars
    /\ [][(StepBegins /\ key' = KEY_r)
            => (/\ score' >= score
                /\ Len(body') >= Len(body)
                /\ body'[1] = <<body[1][1] + direction[1],
                                body[1][2] + direction[2]>>)]_vars

\* a restarted game whose pellet is placed: the key is still the restart key
\* and no step was taken since the construction
C7_Witness ==
    /\ pc = "frame"
    /\ key = KEY_r
    /\ vacated = NoCell
    /\ score = 0
    /\ ~game_over

\* C8: Game.step called on a state in which game_over is true is a no-op for
\* every key: body, direction, pellet, score and game_over are unchanged.
C8_StepNoOpWhenGameOver ==
    [][(pc = "frame" /\ game_over)
        => UNCHANGED <<body, direction, pellet, score, game_over>>]_vars

\* C9 as stated: between frames, GameOver included, the body has at least one
\* segment and no duplicate positions.
C9_NoDuplicatesEver ==
    BetweenFrames => (Len(body) >= 1 /\ NoDuplicates(body))

\* C9, amended: between frames the body has at least one segment; it has no
\* duplicate positions while the game runs, and in GameOver the non-head
\* segments are distinct (only the head may lie on one of them).
C9_BodyDistinct ==
    BetweenFrames
        => (/\ Len(body) >= 1
            /\ ~game_over => NoDuplicates(body)
            /\ NoDuplicates(Tail(body)))

\* the game ended by the head running into the body
C9_Witness ==
    /\ pc = "frame"
    /\ game_over
    /\ InBoard(body[1])
    /\ ~NoDuplicates(body)

\* C10: for a board of width and height >= 1 and every screen size, the
\* constructed state has one segment at board.start + (width div 2, height
\* div 2), inside the board, direction zero, score 0, game_over false, and once
\* the construction completes a pellet on another cell of the board.
C10_Constructed ==
    (/\ caller = "init"
     /\ vacated = NoCell
     /\ settings.board_width >= 1
     /\ settings.board_height >= 1)
        => (/\ pc # "crashed"
            /\ body = << <<board.start[1] + settings.board_width \div 2,
                           board.start[2] + settings.board_height \div 2>> >>
            /\ InBoard(body[1])
            /\ direction = <<0, 0>>
            /\ score = 0
            /\ ~game_over
            /\ BetweenFrames => (InBoard(pellet) /\ pellet # body[1]))

\* the first construction has completed on the widest and highest board
C10_Witness ==
    /\ pc = "frame"
    /\ caller = "init"
    /\ vacated = NoCell
    /\ key = NoKey
    /\ settings.board_width = MaxBoardWidth
    /\ settings.board_height = MaxBoardHeight

----------------------------------------------------------------------------
(* C11..C20 *)

\* non-positive dimensions, or no room for the initial snake and a pellet
Misconfigured ==
    \/ settings.board_width <= 0
    \/ settings.board_height <= 0
    \/ settings.board_width * settings.board_height < 2

\* some cell of the board is no segment of the body
FreeCellExists ==
    \E x \in board.start[1]..board.end[1], y \in board.start[2]..board.end[2] :
        \A i \in 1..Len(body) : body[i] # <<x, y>>

PelletPlaced ==
    /\ pc = "frame"
    /\ InBoard(pellet)
    /\ \A i \in 1..Len(body) : body[i] # pellet

\* C11: a session constructed with a misconfigured board (width or height <= 0,
\* or a board too small for the initial snake and a pellet) ends in a
\* configuration error at session start, and no game is entered.
C11_FailsFast == Misconfigured => pc = "crashed"

\* C12 as stated: every invocation of the pellet generation, in every reachable
\* state, eventually ends with the pellet on a free cell of the board (fair draws).
C12_GenerateTerminates == (pc = "generate") ~> PelletPlaced

\* C12, amended: every invocation of the pellet generation made while some cell
\* of the board is free of the body eventually ends with the pellet on a free
\* cell of the board (fair draws).
C12_GenerateTerminatesIfFree == (pc = "generate" /\ FreeCellExists) ~> PelletPlaced

\* the generation after the second pellet has drawn an occupied cell and has to
\* draw again
C12_Witness ==
    /\ pc = "generate"
    /\ caller = "step"
    /\ score >= 2
    /\ FreeCellExists
    /\ \E i \in 1..Len(body) : body[i] = position

\* the vector a step moves with: the key's when the key is a directional key
\* that is not the reverse of the current direction c, and c otherwise
Effective(k, c) ==
    IF k \in DirectionKeys /\ ~Opposite(c, KeyVector(k)) THEN KeyVector(k) ELSE c

\* C13: in every step from a Running state the direction update precedes the
\* move: the new head is the old head plus the effective direction, which is
\* the key's vector for an accepted directional key and otherwise (no key,
\* another key, a rejected reversal) the direction held before, left unchanged.
C13_UpdateThenMove ==
    [][StepBegins
        => (LET e == Effective(key', direction)
            IN  /\ body'[1] = <<body[1][1] + e[1], body[1][2] + e[2]>>
                /\ game_over' \/ direction' = e)]_vars

\* a frame without a key has moved the snake on in the direction it had
C13_Witness ==
    /\ pc = "frame"
    /\ ~game_over
    /\ key = NoKey
    /\ direction = <<1, 0>>
    /\ vacated # NoCell
    /\ Len(body) = 2
    /\ body[2] = <<body[1][1] - 1, body[1][2]>>
    /\ vacated = <<body[1][1] - 2, body[1][2]>>

\* C14: in every reachable state in which game_over is true the direction is
\* (0,0).
C14_GameOverDirectionZero == game_over => direction = <<0, 0>>

\* the game has ended on a step to the left, off the board, and the direction
\* of that step is gone
C14_Witness ==
    /\ pc = "frame"
    /\ game_over
    /\ direction = <<0, 0>>
    /\ body[1][1] < board.start[1]
    /\ Len(body) >= 2
    /\ body[2] = <<body[1][1] + 1, body[1][2]>>

\* C15: for every configured width w >= 1 and height h >= 1 and every screen
\* size, the board has start <= end on both axes, end.x - start.x + 1 = w and
\* end.y - start.y + 1 = h, and no step changes it.
C15_BoardGeometry ==
    /\ []((settings.board_width >= 1 /\ settings.board_height >= 1)
            => (/\ board.start[1] <= board.end[1]
                /\ board.start[2] <= board.end[2]
                /\ board.end[1] - board.start[1] + 1 = settings.board_width
                /\ board.end[2] - board.start[2] + 1 = settings.board_height))
    /\ [][~Restarted => board' = board]_vars

\* a step was taken on a board of width 3 on a screen of even width (start.x is
\* the floor of 3/2) and of height 2 on a screen of odd height
C15_Witness ==
    /\ pc = "frame"
    /\ vacated # NoCell
    /\ settings.board_width = 3
    /\ settings.board_height = 2
    /\ board.start = <<1, 1>>
    /\ board.end = <<3, 2>>

\* two positions differ by exactly 1 in exactly one coordinate
Adjacent(a, b) ==
    \/ a[1] = b[1] /\ (a[2] = b[2] + 1 \/ a[2] = b[2] - 1)
    \/ a[2] = b[2] /\ (a[1] = b[1] + 1 \/ a[1] = b[1] - 1)

\* C16: in every reachable state of a session the body has score + 1
\* segments: a segment and a point are always gained in the same step.
C16_LengthIsScorePlusOne == Len(body) = score + 1

\* the game has ended with three pellets eaten
C16_Witness ==
    /\ pc = "frame"
    /\ game_over
    /\ score = 3
    /\ Len(body) = 4

\* C17: in every state between frames the pellet is inside the board and on no
\* segment of the body.
C17_PelletOffBody ==
    BetweenFrames => (InBoard(pellet) /\ \A i \in 1..Len(body) : body[i] # pellet)

\* a snake of three segments has moved on without eating, next to the pellet
C17_Witness ==
    /\ pc = "frame"
    /\ ~game_over
    /\ vacated # NoCell
    /\ Len(body) = 3
    /\ Adjacent(body[1], pellet)

\* C18: no step both eats a pellet and ends the game: a step from a Running
\* state that adds to the score leaves game_over false.
C18_EatingNeverEnds ==
    /\ [][(StepBegins /\ score' # score) => ~game_over']_vars
    /\ [][(pc = "generate" /\ caller = "step" /\ pc' = "frame") => ~game_over']_vars

\* the step that ate the fourth pellet, on the edge of the board, has ended
C18_Witness ==
    /\ pc = "frame"
    /\ caller = "step"
    /\ vacated = NoCell
    /\ score = 4
    /\ body[1][1] = board.end[1]
    /\ ~game_over

\* C19: in every reachable state of a game (a construction that raised made
\* none) consecutive body segments are orthogonally adjacent, and in every
\* Running state all segments are inside the board.
C19_ConnectedInside ==
    pc # "crashed"
        => (/\ \A i \in 1..(Len(body) - 1) : Adjacent(body[i], body[i + 1])
            /\ ~game_over => \A i \in 1..Len(body) : InBoard(body[i]))

\* a running snake of five segments that has turned twice
C19_Witness ==
    /\ pc = "frame"
    /\ ~game_over
    /\ Len(body) = 5
    /\ body[1][1] # body[5][1]
    /\ body[1][2] # body[5][2]

\* the number of frames after which a head at b[1] going straight with d is
\* off the board bd
FramesLeft(bd, b, d) ==
    CASE d = <<1, 0>> -> bd.end[1] - b[1][1] + 1
      [] d = <<-1, 0>> -> b[1][1] - bd.start[1] + 1
      [] d = <<0, 1>> -> bd.end[2] - b[1][2] + 1
      [] d = <<0, -1>> -> b[1][2] - bd.start[2] + 1
      [] OTHER -> 0

MaxDimension ==
    IF settings.board_width >= settings.board_height
    THEN settings.board_width
    ELSE settings.board_height

\* a frame from a Running state whose key is no directional key and not quit
QuietFrame == StepBegins /\ key' \in {NoKey, OtherKey, KEY_r}

\* A running snake going straight is at most max(width, height) frames from
\* the wall, and every quiet frame ends the game or brings it one frame nearer,
\* direction kept, also when it ate; with direction (0,0) quiet frames change
\* nothing.
StraightRun ==
    /\ []((pc \in {"frame", "generate"} /\ ~game_over /\ direction # <<0, 0>>)
            => (/\ FramesLeft(board, body, direction) >= 1
                /\ FramesLeft(board, body, direction) <= MaxDimension))
    /\ [][(QuietFrame /\ direction # <<0, 0>>)
            => (\/ game_over' /\ pc' = "frame"
                \/ /\ direction' = direction
                   /\ FramesLeft(board', body', direction')
                        = FramesLeft(board, body, direction) - 1)]_vars
    /\ [][(pc = "generate" /\ caller = "step" /\ pc' = "frame")
            => (game_over' \/ (direction' = direction /\ body' = body))]_vars
    /\ [][(QuietFrame /\ direction = <<0, 0>>)
            => (UNCHANGED gamestate /\ pc' = "frame")]_vars

\* every quiet frame of a running snake that goes straight comes to its end:
\* when it eats, a cell is left for the new pellet
QuietFramesEnd ==
    [][(QuietFrame /\ direction # <<0, 0>> /\ pc' = "generate") => FreeCellExists']_vars

\* C20 as stated: from every Running state with a non-zero direction, frames
\* without a directional key bring game_over within at most max(width, height)
\* frames; with direction (0,0) they leave the state unchanged.
C20_StraightRunEnds == StraightRun /\ QuietFramesEnd

\* C20, amended: the same, for the frames that come to their end; a quiet frame
\* in which the snake eats the pellet on the last free cell of the board never
\* ends, and game_over is never set.
C20_StraightRunEndsIfFramesEnd == StraightRun

\* a frame with a key that is no direction has taken a snake of two segments
\* straight on to the left edge of a board of width 3: one frame is left
C20_Witness ==
    /\ pc = "frame"
    /\ ~game_over
    /\ key = OtherKey
    /\ direction = <<-1, 0>>
    /\ settings.board_width = 3
    /\ body = << <<board.start[1], body[1][2]>>, <<board.start[1] + 1, body[1][2]>> >>
    /\ vacated = <<board.start[1] + 2, body[1][2]>>

====
